---- MODULE Spec2Model ----
(***************************************************************************)
(* A model of open-pathology:                                              *)
(*   app/measures.py                       the presentation side: the      *)
(*       OSJobsRepository cache and the table reshapers;                   *)
(*   app/open_pathology.py                 the dashboard, whose sessions   *)
(*       share one repository;                                             *)
(*   analysis/write_processed_csv_files.py the aggregation pipeline.       *)
(*                                                                         *)
(* Numbers.  A float is kept as an exact fraction num/den (den > 0) or as  *)
(* NaN, so that a ratio, its scaling by 1000 and by 1/10, and the          *)
(* comparison of two ratios are exact.  A percentage rounded to 2 decimals *)
(* is a fraction of denominator 100.  Text that is formatted is a sequence *)
(* of one-character strings.                                               *)
(***************************************************************************)
EXTENDS Integers, Sequences, FiniteSets, TLC

VARIABLES
    \* ---- OSJobsRepository (app/measures.py) and its callers
    _measures,      \* the cache: a function from the cached names to Measures
    pc,             \* per caller: where it is inside get
    arg,            \* per caller: the name passed to get
    ret,            \* per caller: what its last call returned or raised
    before,         \* per caller: the cache as it was when its call began
    nconstruct,     \* per name: how many times _construct(name) was entered
    nfailed,        \* per name: how many of these ended in an exception
    nfetch,         \* per name: how many artifact fetches were made for it
    nextId,         \* identity of the next Measure object to be created
    calls,          \* how many get/list calls were begun
    \* ---- write_processed_csv_files.py
    step,           \* position of the pipeline under study
    test,           \* args.test
    sim,            \* args.sim
    df,             \* the measures table (a sequence of rows)
    codelist,       \* the reference code list (a sequence of rows)
    df_quantiles,   \* get_deciles_table's first result
    df_prac_per_month,  \* get_deciles_table's second result
    df_event_counts,    \* the event counts table
    df_code_counts, \* the full per-code table, before truncation
    top_5,          \* df_code_counts.iloc[:5]
    \* ---- the deciles table as re-read by the dashboard
    url,            \* deciles_table_url
    raw,            \* the table read from the CSV file
    deciles_table   \* _get_deciles_table's result

repoVars == <<_measures, pc, arg, ret, before, nconstruct, nfailed, nfetch,
              nextId, calls>>
aggVars == <<step, test, sim, df, codelist, df_quantiles, df_prac_per_month,
             df_event_counts, df_code_counts, top_5>>
presVars == <<url, raw, deciles_table>>
vars == <<repoVars, aggVars, presVars>>

NaN == [nan |-> TRUE, num |-> 0, den |-> 0]
None == "None"

Min(a, b) == IF a < b THEN a ELSE b

----------------------------------------------------------------------------
(* Bounds of the model.                                                    *)

MaxCalls == 4       \* get/list calls begun in one run
NumThreads == 2     \* dashboard sessions sharing the repository

Threads == 1..NumThreads

----------------------------------------------------------------------------
(* OSJobsRepository.                                                       *)

\* The catalog: the names of measures.yaml and, for each, whether its record
\* carries a measures_tables_url.
Names == {"chol", "hba1c_diab_mean_tests"}

_records ==
    [n \in Names |-> [has_measures_tables_url |-> (n = "chol")]]

\* __init__: the cache starts empty.
EmptyCache == <<>>

\* `name not in self._measures`; and, for comparison, a get that does not
\* look into the cache.
CacheMiss_Always(cache, name) == TRUE

CacheMiss(cache, name) == name \notin DOMAIN cache

\* Measure(...): a new object; id stands for its identity.
Measure(name, id) == [name |-> name, id |-> id]

\* self._measures[name] = <measure>
Stored(cache, name, m) ==
    [k \in (DOMAIN cache) \cup {name} |-> IF k = name THEN m ELSE cache[k]]

\* The cache after _construct raised inside `self._measures[name] = ...`:
\* the assignment is never executed.  For comparison, a get that had put a
\* placeholder into the cache before constructing.
AfterRaise_KeepsPartial(cache, name) == Stored(cache, name, Measure(name, 0))

AfterRaise(cache, name) == cache

NoReturn == [kind |-> "none", name |-> None, id |-> 0, constructed |-> FALSE]

\* The artifact fetched after the one at position p of _construct.
AfterFetch(p, name) ==
    CASE p = "counts" -> "top_5_codes"
      [] p = "top_5_codes" -> "deciles"
      [] p = "deciles" ->
            IF _records[name].has_measures_tables_url
            THEN "measures_tables" ELSE "assemble"
      [] p = "measures_tables" -> "assemble"

FetchPositions == {"counts", "top_5_codes", "deciles", "measures_tables"}

RepoInit ==
    /\ _measures = EmptyCache
    /\ pc = [t \in Threads |-> "idle"]
    /\ arg = [t \in Threads |-> None]
    /\ ret = [t \in Threads |-> NoReturn]
    /\ before = [t \in Threads |-> EmptyCache]
    /\ nconstruct = [n \in Names |-> 0]
    /\ nfailed = [n \in Names |-> 0]
    /\ nfetch = [n \in Names |-> 0]
    /\ nextId = 1
    /\ calls = 0

\* get(name), up to the cache test: a hit returns the cached Measure, a miss
\* enters _construct.
GetBegin(t, name) ==
    /\ pc[t] = "idle"
    /\ calls < MaxCalls
    /\ calls' = calls + 1
    /\ arg' = [arg EXCEPT ![t] = name]
    /\ before' = [before EXCEPT ![t] = _measures]
    /\ IF CacheMiss(_measures, name)
       THEN /\ pc' = [pc EXCEPT ![t] = "counts"]
            /\ nconstruct' = [nconstruct EXCEPT ![name] = @ + 1]
            /\ ret' = [ret EXCEPT ![t] = NoReturn]
       ELSE /\ ret' = [ret EXCEPT ![t] =
                        [kind |-> "measure", name |-> name,
                         id |-> _measures[name].id, constructed |-> FALSE]]
            /\ UNCHANGED <<pc, nconstruct>>
    /\ UNCHANGED <<_measures, nfailed, nfetch, nextId>>

\* One of _get_counts, _get_top_5_codes_table, _get_deciles_table,
\* _get_measures_tables returns.
FetchOk(t) ==
    /\ pc[t] \in FetchPositions
    /\ nfetch' = [nfetch EXCEPT ![arg[t]] = @ + 1]
    /\ pc' = [pc EXCEPT ![t] = AfterFetch(pc[t], arg[t])]
    /\ UNCHANGED <<_measures, arg, ret, before, nconstruct, nfailed, nextId, calls>>

\* One of them raises: the exception leaves _construct and get.
FetchFail(t) ==
    /\ pc[t] \in FetchPositions
    /\ nfetch' = [nfetch EXCEPT ![arg[t]] = @ + 1]
    /\ nfailed' = [nfailed EXCEPT ![arg[t]] = @ + 1]
    /\ _measures' = AfterRaise(_measures, arg[t])
    /\ pc' = [pc EXCEPT ![t] = "idle"]
    /\ ret' = [ret EXCEPT ![t] =
                [kind |-> "error", name |-> arg[t], id |-> 0, constructed |-> TRUE]]
    /\ UNCHANGED <<arg, before, nconstruct, nextId, calls>>

\* _construct returns Measure(...) and get stores it.
Assemble(t) ==
    /\ pc[t] = "assemble"
    /\ _measures' = Stored(_measures, arg[t], Measure(arg[t], nextId))
    /\ nextId' = nextId + 1
    /\ pc' = [pc EXCEPT ![t] = "return"]
    /\ UNCHANGED <<arg, ret, before, nconstruct, nfailed, nfetch, calls>>

\* return self._measures[name]
GetReturn(t) ==
    /\ pc[t] = "return"
    /\ ret' = [ret EXCEPT ![t] =
                [kind |-> "measure", name |-> arg[t],
                 id |-> _measures[arg[t]].id, constructed |-> TRUE]]
    /\ pc' = [pc EXCEPT ![t] = "idle"]
    /\ UNCHANGED <<_measures, arg, before, nconstruct, nfailed, nfetch, nextId, calls>>

\* list()
List(t) ==
    /\ pc[t] = "idle"
    /\ calls < MaxCalls
    /\ calls' = calls + 1
    /\ before' = [before EXCEPT ![t] = _measures]
    /\ ret' = [ret EXCEPT ![t] =
                [kind |-> "names", name |-> None, id |-> 0, constructed |-> FALSE]]
    /\ UNCHANGED <<_measures, pc, arg, nconstruct, nfailed, nfetch, nextId>>

----------------------------------------------------------------------------
(* Text that is searched for a word is kept as its sequence of words: the  *)
(* name hba1c_diab_mean_tests is <<"hba1c", "diab", "mean", "tests">>.     *)

\* Python's `needle in hay`
Contains(hay, needle) ==
    \E i \in 1..(Len(hay) - Len(needle) + 1) :
        SubSeq(hay, i, i + Len(needle) - 1) = needle

\* The values of --test: the seven names main lists and the one measures.py names.
Tests ==
    { <<"alt">>, <<"chol">>, <<"hba1c">>, <<"hba1c", "numeric">>, <<"rbc">>,
      <<"sodium">>, <<"systol">>, <<"hba1c", "diab", "mean", "tests">> }

\* `"mean" in args.test`
IsMean(t) == Contains(t, <<"mean">>)

----------------------------------------------------------------------------
(* Floats: exact fractions, or NaN.                                        *)

Float(n, d) == [nan |-> FALSE, num |-> n, den |-> d]

\* numerator / denominator.  0 / 0 is NaN; the rows followed here have a
\* zero denominator only with a zero numerator.
Ratio(numerator, denominator) ==
    IF denominator = 0 THEN NaN ELSE Float(numerator, denominator)

RatioLE(a, b) == a.num * b.den <= b.num * a.den
RatioEq(a, b) == a.num * b.den = b.num * a.den

\* value * k and value / k
Times(v, k) == IF v.nan THEN NaN ELSE Float(v.num * k, v.den)
Over(v, k) == IF v.nan THEN NaN ELSE Float(v.num, v.den * k)

----------------------------------------------------------------------------
(* get_deciles_table.                                                      *)

\* range(10, 100, 10)
percentiles == <<10, 20, 30, 40, 50, 60, 70, 80, 90>>

Row(measure, interval_start, numerator, denominator, snomedct_code, practice) ==
    [measure |-> measure, interval_start |-> interval_start,
     numerator |-> numerator, denominator |-> denominator,
     ratio |-> Ratio(numerator, denominator),
     snomedct_code |-> snomedct_code, practice |-> practice]

\* The rows of measure by_practice whose ratio is not NaN.
PracticeRows(d) ==
    SelectSeq(d, LAMBDA r : r.measure = "by_practice" /\ ~r.ratio.nan)

\* The keys of a groupby, in the order groupby gives them (sorted).
RECURSIVE SortedInts(_)
SortedInts(S) ==
    IF S = {} THEN <<>>
    ELSE LET m == CHOOSE x \in S : \A y \in S : x <= y
         IN <<m>> \o SortedInts(S \ {m})

GroupKeys(rows) == SortedInts({rows[i].interval_start : i \in DOMAIN rows})

\* The ratios of one group, sorted as quantile sorts them.
RECURSIVE InsertRatio(_, _)
InsertRatio(sorted, r) ==
    IF sorted = <<>> THEN <<r>>
    ELSE IF RatioLE(r, Head(sorted)) THEN <<r>> \o sorted
    ELSE <<Head(sorted)>> \o InsertRatio(Tail(sorted), r)

RECURSIVE SortRatios(_)
SortRatios(s) ==
    IF s = <<>> THEN <<>> ELSE InsertRatio(SortRatios(Tail(s)), Head(s))

GroupRatios(rows, date) ==
    LET g == SelectSeq(rows, LAMBDA r : r.interval_start = date)
    IN SortRatios([i \in DOMAIN g |-> g[i].ratio])

\* quantile(p / 100, interpolation="nearest") of one group: the position
\* p/100 * (n-1) falls on an observation or between two; between two, the
\* nearer one is taken, and of two equally near ones the upper one only
\* above the median.  For comparison, interpolation="midpoint".
Quantile_Midpoint(sorted, p) ==
    LET at == p * (Len(sorted) - 1)
        idx == at \div 100
        lo == sorted[idx + 1]
    IN IF at % 100 = 0 THEN lo
       ELSE LET hi == sorted[idx + 2]
            IN Float(lo.num * hi.den + hi.num * lo.den, 2 * lo.den * hi.den)

Quantile(sorted, p) ==
    LET at == p * (Len(sorted) - 1)
        idx == at \div 100
        frac == at % 100
    IN IF frac = 0 THEN sorted[idx + 1]
       ELSE IF frac > 50 \/ (frac = 50 /\ p > 50) THEN sorted[idx + 2]
       ELSE sorted[idx + 1]

\* Concatenation of the per-group tables.
RECURSIVE Flatten(_)
Flatten(ss) == IF ss = <<>> THEN <<>> ELSE Head(ss) \o Flatten(Tail(ss))

\* Rate per 1000 patients, unless a mean is calculated.
RateScale(t, value) == IF ~IsMean(t) THEN Times(value, 1000) ELSE value

get_deciles_table_quantiles(d, t) ==
    LET rows == PracticeRows(d)
        keys == GroupKeys(rows)
    IN Flatten([k \in DOMAIN keys |->
            [j \in DOMAIN percentiles |->
                [date |-> keys[k],
                 percentile |-> percentiles[j],
                 value |-> RateScale(t, Quantile(GroupRatios(rows, keys[k]),
                                                 percentiles[j]))]]])

get_deciles_table_practices(d) ==
    LET rows == PracticeRows(d)
        keys == GroupKeys(rows)
    IN [k \in DOMAIN keys |->
            [interval_start |-> keys[k],
             n_practices |->
                Cardinality({rows[i].practice :
                    i \in {j \in DOMAIN rows : rows[j].interval_start = keys[k]}})]]

----------------------------------------------------------------------------
(* _get_deciles_table (app/measures.py).                                   *)

PERCENTILE == "Percentile"
DECILE == "Decile"
MEDIAN == "Median"

\* The label of one row: Percentile, overridden by Decile, overridden by
\* Median.  For comparison, the two overrides in the other order.
Label_DecileLast(percentile) ==
    LET l1 == IF percentile = 50 THEN MEDIAN ELSE PERCENTILE
    IN IF percentile # 0 /\ percentile # 100 /\ percentile % 10 = 0
       THEN DECILE ELSE l1

Label(percentile) ==
    LET l0 == PERCENTILE
        is_decile == percentile # 0 /\ percentile # 100 /\ percentile % 10 = 0
        l1 == IF is_decile THEN DECILE ELSE l0
    IN IF percentile = 50 THEN MEDIAN ELSE l1

\* `"hba1c_diab_mean_tests" not in deciles_table_url`; for comparison, a test
\* for "hba1c" alone.
IsExempt_AnyHba1c(u) == Contains(u, <<"hba1c">>)

IsExempt(u) == Contains(u, <<"hba1c", "diab", "mean", "tests">>)

_get_deciles_table(u, table) ==
    LET labelled == [i \in DOMAIN table |->
            [date |-> table[i].date,
             percentile |-> table[i].percentile,
             value |-> IF ~IsExempt(u) THEN Over(table[i].value, 10)
                       ELSE table[i].value,
             label |-> Label(table[i].percentile)]]
    IN SelectSeq(labelled, LAMBDA r : r.label # PERCENTILE)

\* The catalog's deciles_table_url of a measure: the location of the file
\* the pipeline wrote for that --test.
DecilesUrl(t) ==
    <<"https", "jobs", "opensafely", "org", "outputs">> \o t
        \o <<"deciles", "table", "counts", "per", "month", "csv">>

----------------------------------------------------------------------------
(* get_event_counts_and_top_5_codes_tables.                                *)
(* Codes are strings; CodeOrder lists them as strings sort.                *)

\* Events counts are in the numerator except for the mean measure.
EventsOf(t, row) == IF IsMean(t) THEN row.denominator ELSE row.numerator

\* The rows groupby(["snomedct_code", "interval_start"]) keeps: it drops the
\* rows that have no value in a key column.
Keyed(d) == SelectSeq(d, LAMBDA r : r.snomedct_code # None)

RECURSIVE SumEvents(_, _)
SumEvents(t, rows) ==
    IF rows = <<>> THEN 0
    ELSE EventsOf(t, Head(rows)) + SumEvents(t, Tail(rows))

\* events.sum()
EventsSum(d, t) == SumEvents(t, Keyed(d))

\* events.groupby(level="Date").sum().sort_index(ascending=False).iloc[0];
\* for comparison, the same with ascending=True.
LatestDate_Oldest(rows) ==
    CHOOSE x \in {rows[i].interval_start : i \in DOMAIN rows} :
        \A i \in DOMAIN rows : x <= rows[i].interval_start

LatestDate(rows) ==
    CHOOSE x \in {rows[i].interval_start : i \in DOMAIN rows} :
        \A i \in DOMAIN rows : x >= rows[i].interval_start

EventsInLatest(d, t) ==
    LET rows == Keyed(d)
    IN SumEvents(t, SelectSeq(rows,
            LAMBDA r : r.interval_start = LatestDate(rows)))

\* events.groupby(level="Code").sum()
CodeEvents(d, t, code) ==
    SumEvents(t, SelectSeq(Keyed(d), LAMBDA r : r.snomedct_code = code))

\* .sort_values(ascending=False): by events, the larger first; codes with
\* equal events are left in the order groupby gave them (by code).
CodeOrder == <<"101", "102", "103">>
CodeRank(code) == CHOOSE i \in DOMAIN CodeOrder : CodeOrder[i] = code

RECURSIVE SortCodes(_, _, _)
SortCodes(d, t, S) ==
    IF S = {} THEN <<>>
    ELSE LET m == CHOOSE x \in S : \A y \in S :
                    \/ CodeEvents(d, t, x) > CodeEvents(d, t, y)
                    \/ /\ CodeEvents(d, t, x) = CodeEvents(d, t, y)
                       /\ CodeRank(x) <= CodeRank(y)
         IN <<m>> \o SortCodes(d, t, S \ {m})

\* .merge(codelist, on="Code", how="left"): one row per matching row of the
\* code list, and one row without description when none matches.
MergeLeft(code, events, cl) ==
    LET hits == SelectSeq(cl, LAMBDA c : c.Code = code)
    IN IF hits = <<>>
       THEN <<[Code |-> code, Events |-> events, Description |-> None]>>
       ELSE [i \in DOMAIN hits |->
                [Code |-> code, Events |-> events,
                 Description |-> hits[i].Description]]

CodeTable(d, t, cl) ==
    LET rows == Keyed(d)
        codes == SortCodes(d, t, {rows[i].snomedct_code : i \in DOMAIN rows})
    IN Flatten([i \in DOMAIN codes |->
                    MergeLeft(codes[i], CodeEvents(d, t, codes[i]), cl)])

RECURSIVE SumColumn(_)
SumColumn(table) ==
    IF table = <<>> THEN 0 ELSE Head(table).Events + SumColumn(Tail(table))

\* round(100 * events / total, 2): a number of hundredths; 0 / 0 is NaN.
\* A value half way between two hundredths goes to the even one.
Round2(events, total) ==
    IF total = 0 THEN NaN
    ELSE LET q == (10000 * events) \div total
             r == (10000 * events) % total
         IN IF 2 * r < total THEN Float(q, 100)
            ELSE IF 2 * r > total THEN Float(q + 1, 100)
            ELSE IF q % 2 = 0 THEN Float(q, 100) ELSE Float(q + 1, 100)

DigitChars == <<"0", "1", "2", "3", "4", "5", "6", "7", "8", "9">>

RECURSIVE Digits(_)
Digits(n) ==
    IF n < 10 THEN <<DigitChars[n + 1]>>
    ELSE Digits(n \div 10) \o <<DigitChars[(n % 10) + 1]>>

\* .astype(str) of a float that holds a number of hundredths: "0.0", "0.01",
\* "33.3", "100.0", and "nan".
FloatStr(x) ==
    IF x.nan THEN <<"n", "a", "n">>
    ELSE LET h == x.num
         IN Digits(h \div 100) \o <<".">> \o
            (IF h % 10 = 0 THEN <<DigitChars[((h % 100) \div 10) + 1]>>
             ELSE <<DigitChars[((h % 100) \div 10) + 1], DigitChars[(h % 10) + 1]>>)

\* .str.replace("0", "") == "."
IsAllZero(s) == SelectSeq(s, LAMBDA c : c # "0") = <<".">>

\* .str.startswith("100."); for comparison, == "100.00".
StartsWith100_TwoDecimals(s) == s = <<"1", "0", "0", ".", "0", "0">>

StartsWith100(s) == Len(s) >= 4 /\ SubSeq(s, 1, 4) = <<"1", "0", "0", ".">>

BelowText == <<"<", " ", "0", ".", "0", "0", "5">>
AboveText == <<">", " ", "9", "9", ".", "9", "9", "5">>

\* The formatting tweaks, for a table of n rows.
Clamp(n, s) ==
    IF n > 1
    THEN IF IsAllZero(s) THEN BelowText
         ELSE IF StartsWith100(s) THEN AboveText
         ELSE s
    ELSE s

\* df_code_counts with its "Proportion of codes (%)" column.  The column
\* raw keeps the rounded number the text was made from.
WithProportions(table) ==
    LET total_events == SumColumn(table)
    IN [i \in DOMAIN table |->
            [Code |-> table[i].Code,
             Events |-> table[i].Events,
             Description |-> table[i].Description,
             raw |-> Round2(table[i].Events, total_events),
             Proportion |->
                Clamp(Len(table), FloatStr(Round2(table[i].Events, total_events)))]]

\* .iloc[:5]
TopN == 5

Top(table) == SubSeq(table, 1, Min(TopN, Len(table)))

\* The event counts table: both counts are 0 when there are no events.
EventCounts(d, t) ==
    IF Keyed(d) # <<>>
    THEN [total_events |-> EventsSum(d, t),
          events_in_latest_period |-> EventsInLatest(d, t)]
    ELSE [total_events |-> 0, events_in_latest_period |-> 0]

CodeCounts(d, t, cl) ==
    IF Keyed(d) # <<>> THEN WithProportions(CodeTable(d, t, cl)) ELSE <<>>

----------------------------------------------------------------------------
(* main (write_processed_csv_files.py), in the order it works.             *)

\* np.random.randint(0, 500) and np.random.randint(500, 1000): low is
\* included, high is not.
SimNumeratorLow == 0
SimNumeratorHigh == 500
SimDenominatorLow == 500
SimDenominatorHigh == 1000

\* The draws followed here: the ends of each range and one value inside.
SimNumerators == {SimNumeratorLow, SimNumeratorLow + 1, SimNumeratorHigh - 1}
SimDenominators == {SimDenominatorLow, SimDenominatorHigh - 1}

Simulated(d, nums, dens) ==
    [i \in DOMAIN d |->
        [d[i] EXCEPT !.numerator = nums[i],
                     !.denominator = dens[i],
                     !.ratio = Ratio(nums[i], dens[i])]]

----------------------------------------------------------------------------
(* Inputs.                                                                 *)

MaxRows == 3        \* rows of a measures table given to get_deciles_table
MaxEventRows == 3   \* rows of a measures table given to the event counts
MaxMainRows == 2    \* rows of a measures table given to main
MaxRawRows == 3     \* rows of a deciles file read by the dashboard

SeqsUpTo(S, n) == UNION {[1..k -> S] : k \in 0..n}

Dates == {1, 2}
Codes == {"101", "102"}

MeanTest == <<"hba1c", "diab", "mean", "tests">>
CholTest == <<"chol">>

\* by_practice rows (a practice without events has no ratio) and one row of
\* another measure.
PracticeRowUniverse ==
    {Row("by_practice", d, x[1], x[2], None, x[3]) :
        d \in Dates,
        x \in {<<0, 0, 1>>, <<1, 100, 1>>, <<2, 100, 2>>, <<5, 100, 3>>}}
    \cup {Row("by_IMD", 1, 3, 100, None, None)}

\* Rows that carry a code, and rows of the other measures, which carry none.
EventRowUniverse ==
    {Row(IF c = None THEN "by_practice" ELSE "by_code", d, x[1], x[2], c,
         IF c = None THEN 1 ELSE None) :
        d \in Dates, c \in Codes \cup {None},
        x \in {<<0, 0>>, <<1, 25000>>, <<25000, 1>>}}

MainRowUniverse ==
    { Row("by_practice", 1, 1, 100, None, 1),
      Row("by_practice", 1, 0, 0, None, 2),
      Row("by_code", 1, 7, 100, "101", None),
      Row("by_code", 2, 3, 100, "102", None) }

\* Code lists: a complete one; one with code 101 twice and without code 102.
CodeLists ==
    { <<[Code |-> "101", Description |-> "d101"], [Code |-> "102", Description |-> "d102"]>>,
      <<[Code |-> "101", Description |-> "d101"], [Code |-> "101", Description |-> "d101b"]>> }

RawRowUniverse ==
    {[date |-> 1, percentile |-> p, value |-> Float(v, 1)] :
        p \in {0, 5, 10, 50, 90, 95, 100}, v \in {40}}

AggIdle ==
    /\ step = "start"
    /\ test = CholTest
    /\ sim = FALSE
    /\ df = <<>>
    /\ codelist = <<>>
    /\ df_quantiles = None
    /\ df_prac_per_month = None
    /\ df_event_counts = None
    /\ df_code_counts = None
    /\ top_5 = None

PresIdle ==
    /\ url = None
    /\ raw = None
    /\ deciles_table = None

----------------------------------------------------------------------------
(* Spec: one caller of the repository (a sequential sequence of calls).    *)

Caller == 1

Get == \E name \in Names : GetBegin(Caller, name)
Fetched == FetchOk(Caller)
FetchRaised == FetchFail(Caller)
Assembled == Assemble(Caller)
Returned == GetReturn(Caller)
Listed == List(Caller)

Init == RepoInit /\ AggIdle /\ PresIdle

Next ==
    \/ Get /\ UNCHANGED <<aggVars, presVars>>
    \/ Fetched /\ UNCHANGED <<aggVars, presVars>>
    \/ FetchRaised /\ UNCHANGED <<aggVars, presVars>>
    \/ Assembled /\ UNCHANGED <<aggVars, presVars>>
    \/ Returned /\ UNCHANGED <<aggVars, presVars>>
    \/ Listed /\ UNCHANGED <<aggVars, presVars>>

Spec == Init /\ [][Next]_vars

(* SpecSessions: the dashboard's sessions, each a thread running main      *)
(* (open_pathology.py) against the one repository get_repository returns.  *)

SessionGet == \E t \in Threads, name \in Names : GetBegin(t, name)
SessionFetched == \E t \in Threads : FetchOk(t)
SessionFetchRaised == \E t \in Threads : FetchFail(t)
SessionAssembled == \E t \in Threads : Assemble(t)
SessionReturned == \E t \in Threads : GetReturn(t)
SessionListed == \E t \in Threads : List(t)

NextSessions ==
    \/ SessionGet /\ UNCHANGED <<aggVars, presVars>>
    \/ SessionFetched /\ UNCHANGED <<aggVars, presVars>>
    \/ SessionFetchRaised /\ UNCHANGED <<aggVars, presVars>>
    \/ SessionAssembled /\ UNCHANGED <<aggVars, presVars>>
    \/ SessionReturned /\ UNCHANGED <<aggVars, presVars>>
    \/ SessionListed /\ UNCHANGED <<aggVars, presVars>>

SpecSessions == Init /\ [][NextSessions]_vars

----------------------------------------------------------------------------
(* SpecDeciles: get_deciles_table on a measures table, and the dashboard's *)
(* re-read of the file it wrote.                                           *)

InitDeciles ==
    /\ RepoInit /\ PresIdle
    /\ step = "start"
    /\ test \in Tests
    /\ sim = FALSE
    /\ df \in SeqsUpTo(PracticeRowUniverse, MaxRows)
    /\ codelist = <<>>
    /\ df_quantiles = None
    /\ df_prac_per_month = None
    /\ df_event_counts = None
    /\ df_code_counts = None
    /\ top_5 = None

GetDecilesTable ==
    /\ step = "start"
    /\ df_quantiles' = get_deciles_table_quantiles(df, test)
    /\ df_prac_per_month' = get_deciles_table_practices(df)
    /\ step' = "deciles"
    /\ UNCHANGED <<test, sim, df, codelist, df_event_counts, df_code_counts, top_5>>
    /\ UNCHANGED <<repoVars, presVars>>

\* deciles_table.to_csv(...), and _get_deciles_table on the catalog's url
\* of that file.
ReadDecilesTable ==
    /\ step = "deciles"
    /\ url' = DecilesUrl(test)
    /\ raw' = df_quantiles
    /\ deciles_table' = _get_deciles_table(DecilesUrl(test), df_quantiles)
    /\ step' = "read"
    /\ UNCHANGED <<test, sim, df, codelist, df_quantiles, df_prac_per_month,
                   df_event_counts, df_code_counts, top_5>>
    /\ UNCHANGED repoVars

NextDeciles == GetDecilesTable \/ ReadDecilesTable

SpecDeciles == InitDeciles /\ [][NextDeciles]_vars

----------------------------------------------------------------------------
(* SpecEvents: get_event_counts_and_top_5_codes_tables.                    *)

InitEvents ==
    /\ RepoInit /\ PresIdle
    /\ step = "start"
    /\ test \in {CholTest, MeanTest}
    /\ sim = FALSE
    /\ df \in SeqsUpTo(EventRowUniverse, MaxEventRows)
    /\ codelist \in CodeLists
    /\ df_quantiles = None
    /\ df_prac_per_month = None
    /\ df_event_counts = None
    /\ df_code_counts = None
    /\ top_5 = None

GetEventCounts ==
    /\ step = "start"
    /\ df_event_counts' = EventCounts(df, test)
    /\ df_code_counts' = CodeCounts(df, test, codelist)
    /\ top_5' = Top(CodeCounts(df, test, codelist))
    /\ step' = "events"
    /\ UNCHANGED <<test, sim, df, codelist, df_quantiles, df_prac_per_month>>
    /\ UNCHANGED <<repoVars, presVars>>

NextEvents == GetEventCounts

SpecEvents == InitEvents /\ [][NextEvents]_vars

----------------------------------------------------------------------------
(* SpecMain: main, with and without --sim.                                 *)

InitMain ==
    /\ RepoInit /\ PresIdle
    /\ step = "start"
    /\ test \in {CholTest, MeanTest}
    /\ sim \in BOOLEAN
    /\ df \in SeqsUpTo(MainRowUniverse, MaxMainRows)
    /\ codelist \in CodeLists
    /\ df_quantiles = None
    /\ df_prac_per_month = None
    /\ df_event_counts = None
    /\ df_code_counts = None
    /\ top_5 = None

MainReadSimulated ==
    /\ step = "start"
    /\ sim
    /\ \E nums \in [DOMAIN df -> SimNumerators],
          dens \in [DOMAIN df -> SimDenominators] :
            df' = Simulated(df, nums, dens)
    /\ step' = "loaded"
    /\ UNCHANGED <<test, sim, codelist, df_quantiles, df_prac_per_month,
                   df_event_counts, df_code_counts, top_5>>
    /\ UNCHANGED <<repoVars, presVars>>

MainRead ==
    /\ step = "start"
    /\ ~sim
    /\ step' = "loaded"
    /\ UNCHANGED <<test, sim, df, codelist, df_quantiles, df_prac_per_month,
                   df_event_counts, df_code_counts, top_5>>
    /\ UNCHANGED <<repoVars, presVars>>

MainDeciles ==
    /\ step = "loaded"
    /\ df_quantiles' = get_deciles_table_quantiles(df, test)
    /\ df_prac_per_month' = get_deciles_table_practices(df)
    /\ step' = "deciles"
    /\ UNCHANGED <<test, sim, df, codelist, df_event_counts, df_code_counts, top_5>>
    /\ UNCHANGED <<repoVars, presVars>>

MainEvents ==
    /\ step = "deciles"
    /\ df_event_counts' = EventCounts(df, test)
    /\ df_code_counts' = CodeCounts(df, test, codelist)
    /\ top_5' = Top(CodeCounts(df, test, codelist))
    /\ step' = "done"
    /\ UNCHANGED <<test, sim, df, codelist, df_quantiles, df_prac_per_month>>
    /\ UNCHANGED <<repoVars, presVars>>

NextMain == MainReadSimulated \/ MainRead \/ MainDeciles \/ MainEvents

SpecMain == InitMain /\ [][NextMain]_vars

----------------------------------------------------------------------------
(* SpecReshape: _get_deciles_table on any deciles file.                    *)

InitReshape ==
    /\ RepoInit /\ AggIdle
    /\ url \in {DecilesUrl(CholTest), DecilesUrl(MeanTest)}
    /\ raw \in SeqsUpTo(RawRowUniverse, MaxRawRows)
    /\ deciles_table = None

ReadRawTable ==
    /\ step = "start"
    /\ deciles_table' = _get_deciles_table(url, raw)
    /\ step' = "read"
    /\ UNCHANGED <<test, sim, df, codelist, df_quantiles, df_prac_per_month,
                   df_event_counts, df_code_counts, top_5, url, raw>>
    /\ UNCHANGED repoVars

NextReshape == ReadRawTable

SpecReshape == InitReshape /\ [][NextReshape]_vars

----------------------------------------------------------------------------
(* Properties of the repository.                                           *)

RECURSIVE SeqSum(_)
SeqSum(q) == IF q = <<>> THEN 0 ELSE Head(q) + SeqSum(Tail(q))

RECURSIVE SumOver(_, _)
SumOver(f, S) ==
    IF S = {} THEN 0
    ELSE LET x == CHOOSE y \in S : TRUE IN f[x] + SumOver(f, S \ {x})

\* C1: with one caller, a name that is in the cache stays in it with the
\* same Measure, is never constructed or fetched for again, a get of it
\* returns that Measure at once, and list leaves the cache as it is.
C1_ConstructOnceAppendOnly ==
    [][ /\ \A n \in DOMAIN _measures :
              /\ n \in DOMAIN _measures'
              /\ _measures'[n] = _measures[n]
              /\ nconstruct'[n] = nconstruct[n]
              /\ nfetch'[n] = nfetch[n]
        /\ ( /\ calls' # calls
             /\ ret'[Caller].kind # "names"
             /\ arg'[Caller] \in DOMAIN _measures )
           => /\ ret'[Caller].kind = "measure"
              /\ ret'[Caller].name = arg'[Caller]
              /\ ret'[Caller].id = _measures[arg'[Caller]].id
              /\ pc'[Caller] = "idle"
        /\ (calls' # calls /\ ret'[Caller].kind = "names")
           => _measures' = _measures
      ]_vars

\* A get that was answered from the cache, after a construction that made
\* at least three fetches.
C1_Witness ==
    /\ ret[Caller].kind = "measure"
    /\ ~ret[Caller].constructed
    /\ nconstruct[ret[Caller].name] = 1
    /\ nfetch[ret[Caller].name] >= 3

\* C2: among the sessions, _construct(name) is entered at most once for
\* each name, not counting the constructions that ended in an exception.
C2_AtMostOneConstruction ==
    \A n \in Names : nconstruct[n] <= 1 + nfailed[n]

\* C3: with one caller, when a fetch raised, get has raised, the cache is
\* what it was when the call began and holds nothing for that name, and no
\* call has entered _construct more than once.
C3_FailureLeavesCache ==
    /\ (pc[Caller] = "idle" /\ ret[Caller].kind = "error")
        => /\ _measures = before[Caller]
           /\ ret[Caller].name \notin DOMAIN _measures
    /\ SumOver(nconstruct, Names) <= calls

\* A second failed get of a name, while another name is cached: the first
\* failure left nothing behind, so construction was attempted again.
C3_Witness ==
    /\ pc[Caller] = "idle"
    /\ ret[Caller].kind = "error"
    /\ nconstruct[ret[Caller].name] = 2
    /\ nfailed[ret[Caller].name] = 2
    /\ _measures # EmptyCache

----------------------------------------------------------------------------
(* Properties of the aggregation.                                          *)

\* The by_practice ratios observed in a period, as rows.
Observed(date) ==
    SelectSeq(df, LAMBDA r : /\ r.measure = "by_practice"
                             /\ r.interval_start = date
                             /\ ~r.ratio.nan)

ObservedDates == {d \in Dates : Observed(d) # <<>>}

\* The value of a deciles row without the scale of its variant.
IsScaled(value, r) ==
    IF test = MeanTest
    THEN value.num * r.den = r.num * value.den
    ELSE value.num * r.den = 1000 * r.num * value.den

\* C5: every period with observations has one row for each of the
\* percentiles 10..90; its value, without the x1000 of the rate variants, is
\* one of the ratios observed in the period; with three observations the
\* value at percentile 50 has two observations on either side, itself
\* included.
C5_NearestRank ==
    step # "start" =>
        /\ \A d \in ObservedDates : \A p \in {10, 20, 30, 40, 50, 60, 70, 80, 90} :
              \E i \in DOMAIN df_quantiles :
                  df_quantiles[i].date = d /\ df_quantiles[i].percentile = p
        /\ \A i \in DOMAIN df_quantiles :
              LET q == df_quantiles[i]
                  obs == Observed(q.date)
              IN /\ q.percentile \in {10, 20, 30, 40, 50, 60, 70, 80, 90}
                 /\ \E k \in DOMAIN obs : IsScaled(q.value, obs[k].ratio)
                 /\ (Len(obs) = 3 /\ q.percentile = 50) =>
                        \E k \in DOMAIN obs :
                            /\ IsScaled(q.value, obs[k].ratio)
                            /\ Cardinality({j \in DOMAIN obs :
                                    RatioLE(obs[j].ratio, obs[k].ratio)}) >= 2
                            /\ Cardinality({j \in DOMAIN obs :
                                    RatioLE(obs[k].ratio, obs[j].ratio)}) >= 2

\* Three different ratios observed in one period, of a rate variant.
C5_Witness ==
    /\ step = "deciles"
    /\ test = CholTest
    /\ \E d \in Dates :
          /\ Len(Observed(d)) = 3
          /\ \A j, k \in 1..3 :
                j # k => ~RatioEq(Observed(d)[j].ratio, Observed(d)[k].ratio)

EventsColumn(r) == IF test = MeanTest THEN r.denominator ELSE r.numerator

ColumnSum(rows) == SeqSum([i \in DOMAIN rows |-> EventsColumn(rows[i])])

WithCode == SelectSeq(df, LAMBDA r : r.snomedct_code # None)

InLatest(rows) ==
    SelectSeq(rows, LAMBDA r :
        \A i \in DOMAIN rows : rows[i].interval_start <= r.interval_start)

\* C6, as amended: total_events is the sum of the events column over the
\* rows that carry a code, events_in_latest_period the sum over those of
\* them in the most recent period, total_events >= events_in_latest_period
\* >= 0, and both are 0 when no row carries a code.
C6_EventCountBounds ==
    step = "events" =>
        /\ df_event_counts.total_events = ColumnSum(WithCode)
        /\ df_event_counts.events_in_latest_period = ColumnSum(InLatest(WithCode))
        /\ df_event_counts.total_events >= df_event_counts.events_in_latest_period
        /\ df_event_counts.events_in_latest_period >= 0
        /\ WithCode = <<>> =>
              /\ df_event_counts.total_events = 0
              /\ df_event_counts.events_in_latest_period = 0

\* Events in two periods, some of them on rows without a code.
C6_Witness ==
    /\ step = "events"
    /\ df_event_counts.total_events > df_event_counts.events_in_latest_period
    /\ df_event_counts.events_in_latest_period > 0
    /\ ColumnSum(df) > df_event_counts.total_events

\* C6, as claimed: total_events is the sum of the events column over all
\* rows, events_in_latest_period the sum over the rows of the most recent
\* period, and total_events >= events_in_latest_period >= 0.
C6_Original ==
    step = "events" =>
        /\ df_event_counts.total_events = ColumnSum(df)
        /\ df_event_counts.events_in_latest_period = ColumnSum(InLatest(df))
        /\ df_event_counts.total_events >= df_event_counts.events_in_latest_period
        /\ df_event_counts.events_in_latest_period >= 0

ZeroText == {<<"0", ".", "0">>, <<"0", ".", "0", "0">>}
HundredText == {<<"1", "0", "0", ".", "0">>, <<"1", "0", "0", ".", "0", "0">>}

\* part / total is below, or above, 0.005%: 20000 * part < total, or > total.
Below(part, total) == part <= (total - 1) \div 20000
Above(part, total) == part > total \div 20000

\* C4: in a table of more than one row no row shows 0.0 or 100.0; a row
\* whose share of the events is below 0.005% shows "< 0.005", one whose
\* share is above 99.995% shows "> 99.995", and a row in between shows
\* neither.  In a table of one row the share is shown as it is.
C4_ProportionClamp ==
    step = "events" =>
        LET T == df_code_counts
            total == SeqSum([i \in DOMAIN T |-> T[i].Events])
        IN /\ Len(T) > 1 => \A i \in DOMAIN T :
                /\ T[i].Proportion \notin ZeroText \cup HundredText
                /\ (total > 0 /\ Below(T[i].Events, total))
                      => T[i].Proportion = BelowText
                /\ (total > 0 /\ Below(total - T[i].Events, total))
                      => T[i].Proportion = AboveText
                /\ (Above(T[i].Events, total) /\ Above(total - T[i].Events, total))
                      => T[i].Proportion \notin {BelowText, AboveText}
           /\ Len(T) = 1 =>
                /\ T[1].Proportion \notin {BelowText, AboveText}
                /\ total > 0 => T[1].Proportion = <<"1", "0", "0", ".", "0">>

\* A table of two codes, one clamped at each end, both with events.
C4_Witness ==
    /\ step = "events"
    /\ Len(df_code_counts) = 2
    /\ df_code_counts[1].Proportion = AboveText
    /\ df_code_counts[2].Proportion = BelowText
    /\ df_code_counts[2].Events > 0

Abs(x) == IF x < 0 THEN 0 - x ELSE x

\* C7: the proportions of a non-empty table, as rounded and before the
\* clamp, are numbers and add up to 100 within half a hundredth per row.
C7_ProportionsSumTo100 ==
    (step = "events" /\ df_code_counts # <<>>) =>
        /\ \A i \in DOMAIN df_code_counts : ~df_code_counts[i].raw.nan
        /\ 2 * Abs(SeqSum([i \in DOMAIN df_code_counts |->
                            df_code_counts[i].raw.num]) - 10000)
              <= Len(df_code_counts)

\* C9: after a simulated read every row has numerator >= 1, denominator
\* >= 1 and the ratio of the two.
C9_SimulatedPositive ==
    (sim /\ step # "start") =>
        \A i \in DOMAIN df :
            /\ df[i].numerator >= 1
            /\ df[i].denominator >= 1
            /\ df[i].ratio = Float(df[i].numerator, df[i].denominator)

----------------------------------------------------------------------------
(* Properties of the re-read.                                              *)

DecilePercentiles == {10, 20, 30, 40, 50, 60, 70, 80, 90}

\* C8: the re-read table is the rows of the file whose percentile is one
\* of 10..90, in their order; percentile 50 is labelled Median and the
\* others Decile; no row is labelled Percentile.
C8_Labels ==
    step = "read" =>
        LET kept == SelectSeq(raw, LAMBDA r : r.percentile \in DecilePercentiles)
        IN /\ Len(deciles_table) = Len(kept)
           /\ \A i \in DOMAIN deciles_table :
                 /\ deciles_table[i].date = kept[i].date
                 /\ deciles_table[i].percentile = kept[i].percentile
                 /\ deciles_table[i].label =
                        (IF kept[i].percentile = 50 THEN "Median" ELSE "Decile")
                 /\ deciles_table[i].label # "Percentile"

\* A file with the median, another decile and a percentile that is dropped.
C8_Witness ==
    /\ step = "read"
    /\ Len(raw) = 3
    /\ Len(deciles_table) = 2
    /\ \E i \in DOMAIN deciles_table : deciles_table[i].label = "Median"
    /\ \E i \in DOMAIN deciles_table : deciles_table[i].label = "Decile"

====
